---------------------------- MODULE Spec2Model ----------------------------
(***************************************************************************)
(* Model of the evaluation-data reshaping scripts:                         *)
(*   export_thread_to_eval_jsonl.py  (split_query_and_response)            *)
(*   postprocess_evaluation_jsonl.py (extractors, view builders, the       *)
(*                                    postprocess loop and its writes)     *)
(*                                                                         *)
(* JSON values are tagged records [t, v]: t is the Python type, v the      *)
(* payload.  A str is a sequence of one-character strings, a list is a     *)
(* sequence of values, a dict is a function from key names to values.      *)
(***************************************************************************)
EXTENDS Integers, Sequences, FiniteSets, TLC

VARIABLES
    \* ---- postprocess(input_path, out_dir, rag_snippets_k, snippet_max_chars)
    pc,                 \* position in postprocess
    lines,              \* the lines of the input file not yet read
    rag_snippets_k,     \* parameter
    snippet_max_chars,  \* parameter
    nread,              \* number of records the loop has processed
    item,               \* the record of the current / last loop iteration
    tool_ctx_called,    \* did that iteration call _build_context_from_tool_results
    general_rows, agent_rows, rag_rows, docret_rows, respcomp_rows,
    outputs,            \* the returned summary: set of view names mapped to a path
    files,              \* view files written by _write_jsonl in this run
    \* ---- a single call of one of the pure helpers
    fn,                 \* which helper was called ("none" before the call)
    arg,                \* its arguments
    ret                 \* its return value

post_vars == <<pc, lines, rag_snippets_k, snippet_max_chars, nread, item, tool_ctx_called,
               general_rows, agent_rows, rag_rows, docret_rows, respcomp_rows,
               outputs, files>>
fn_vars == <<fn, arg, ret>>
vars == <<post_vars, fn_vars>>

(***************************************************************************)
(* Bounds of the model                                                     *)
(***************************************************************************)
MaxMsgs == 3
MaxK == 2
MaxL == 2
MaxRecords == 2
Excess == 100

(***************************************************************************)
(* JSON / Python values                                                    *)
(***************************************************************************)
None == [t |-> "none", v |-> <<>>]
Str(s) == [t |-> "str", v |-> s]
List(l) == [t |-> "list", v |-> l]
Dict(d) == [t |-> "dict", v |-> d]
Num(n) == [t |-> "num", v |-> n]

IsNone(x) == x.t = "none"
IsStr(x) == x.t = "str"
IsList(x) == x.t = "list"
IsDict(x) == x.t = "dict"

\* bool(x)
Truthy(x) ==
    CASE x.t = "none" -> FALSE
      [] x.t = "str" -> Len(x.v) > 0
      [] x.t = "list" -> Len(x.v) > 0
      [] x.t = "dict" -> DOMAIN x.v # {}
      [] x.t = "num" -> x.v # 0

\* d.get(k) and d.get(k, default)
GetDefault(d, k, default) == IF k \in DOMAIN d.v THEN d.v[k] ELSE default
Get(d, k) == GetDefault(d, k, None)

\* a or b
Or(a, b) == IF Truthy(a) THEN a ELSE b

\* str(x) of the values the model passes to it
PyStr(x) ==
    CASE x.t = "str" -> x.v
      [] x.t = "none" -> <<"N", "o", "n", "e">>
      [] x.t = "num" /\ x.v = 0 -> <<"0">>
      [] x.t = "num" /\ x.v = 1 -> <<"1">>

Whitespace == {" ", "\n", "\t"}

\* s.strip()
RECURSIVE LStrip(_)
LStrip(s) == IF s # <<>> /\ Head(s) \in Whitespace THEN LStrip(Tail(s)) ELSE s
RECURSIVE RStrip(_)
RStrip(s) ==
    IF s # <<>> /\ s[Len(s)] \in Whitespace THEN RStrip(SubSeq(s, 1, Len(s) - 1)) ELSE s
Strip(s) == RStrip(LStrip(s))

\* s[:n] for n >= 0
Prefix(s, n) == SubSeq(s, 1, IF n < Len(s) THEN n ELSE Len(s))

\* the role and part-type strings the code compares against
RoleUser == Str(<<"u", "s", "e", "r">>)
RoleAssistant == Str(<<"a", "s", "s", "i", "s", "t", "a", "n", "t">>)
RoleTool == Str(<<"t", "o", "o", "l">>)
RoleSystem == Str(<<"s", "y", "s", "t", "e", "m">>)
TypeText == Str(<<"t", "e", "x", "t">>)
TypeToolResult == Str(<<"t", "o", "o", "l", "_", "r", "e", "s", "u", "l", "t">>)
TypeToolCall == Str(<<"t", "o", "o", "l", "_", "c", "a", "l", "l">>)

(***************************************************************************)
(* export_thread_to_eval_jsonl.py: split_query_and_response                *)
(***************************************************************************)
\* one iteration of the loop over messages; st = [query, response, seen_assistant]
SplitStepDropsFlag(st, msg) ==
    IF Get(msg, "role") # RoleAssistant
    THEN [st EXCEPT !.query = Append(@, msg)]
    ELSE [st EXCEPT !.response = Append(@, msg)]

SplitStepLosesMessage(st, msg) ==
    IF ~st.seen_assistant /\ Get(msg, "role") # RoleAssistant
    THEN [st EXCEPT !.query = Append(@, msg)]
    ELSE [st EXCEPT !.seen_assistant = TRUE,
                    !.response = IF Get(msg, "role") = RoleAssistant
                                 THEN Append(@, msg) ELSE @]

SplitStep(st, msg) ==
    IF ~st.seen_assistant /\ Get(msg, "role") # RoleAssistant
    THEN [st EXCEPT !.query = Append(@, msg)]
    ELSE [st EXCEPT !.seen_assistant = TRUE, !.response = Append(@, msg)]

RECURSIVE SplitLoop(_, _)
SplitLoop(st, messages) ==
    IF messages = <<>> THEN st
    ELSE SplitLoop(SplitStep(st, Head(messages)), Tail(messages))

split_query_and_response(messages) ==
    LET st == SplitLoop([query |-> <<>>, response |-> <<>>, seen_assistant |-> FALSE],
                        messages)
    IN  [query |-> st.query, response |-> st.response]


(***************************************************************************)
(* postprocess_evaluation_jsonl.py: the Last-Text Extractor                *)
(***************************************************************************)
\* the inner "for part in content" loop: the first text part with truthy text
RECURSIVE FirstTextPart(_)
FirstTextPart(parts) ==
    IF parts = <<>> THEN None
    ELSE LET part == Head(parts) IN
         IF IsDict(part) /\ Get(part, "type") = TypeText /\ Truthy(Get(part, "text"))
         THEN Get(part, "text")
         ELSE FirstTextPart(Tail(parts))

RECURSIVE ExtractFirstText(_, _)
ExtractFirstText(messages, role) ==
    IF messages = <<>> THEN None
    ELSE LET m == Head(messages)
             later == Tail(messages)
         IN  IF ~IsDict(m) THEN ExtractFirstText(later, role)
             ELSE IF Get(m, "role") # role THEN ExtractFirstText(later, role)
             ELSE LET content == Get(m, "content") IN
                  IF IsStr(content) THEN content
                  ELSE IF IsList(content) /\ ~IsNone(FirstTextPart(content.v))
                       THEN FirstTextPart(content.v)
                       ELSE ExtractFirstText(later, role)

\* the "for m in reversed(messages)" loop shared by the two extractors
RECURSIVE ExtractLastText(_, _)
ExtractLastText(messages, role) ==
    IF messages = <<>> THEN None
    ELSE LET m == messages[Len(messages)]
             earlier == SubSeq(messages, 1, Len(messages) - 1)
         IN  IF ~IsDict(m) THEN ExtractLastText(earlier, role)
             ELSE IF Get(m, "role") # role THEN ExtractLastText(earlier, role)
             ELSE LET content == Get(m, "content") IN
                  IF IsStr(content) THEN content
                  ELSE IF IsList(content) /\ ~IsNone(FirstTextPart(content.v))
                       THEN FirstTextPart(content.v)
                       ELSE ExtractLastText(earlier, role)

_extract_last_user_text(messages) == ExtractLastText(messages, RoleUser)

_last_user_query(it) ==
    LET q == Get(it, "query") IN
    IF IsStr(q) THEN q
    ELSE IF IsList(q) THEN _extract_last_user_text(q.v)
    ELSE None

_extract_last_assistant_text(messages) == ExtractLastText(messages, RoleAssistant)

_final_assistant_response(it) ==
    LET r == Get(it, "response") IN
    IF IsStr(r) THEN r
    ELSE IF IsList(r) THEN _extract_last_assistant_text(r.v)
    ELSE None

(***************************************************************************)
(* _slim_tool_definitions, _slim_tool_calls                                *)
(***************************************************************************)
ToolDefinitionKeys == {"name", "type", "description", "parameters", "operationId"}
ToolCallKeys == {"name", "arguments"}

RECURSIVE SlimEntriesKeepsAllKeys(_, _)
SlimEntriesKeepsAllKeys(entries, allowed) ==
    IF entries = <<>> THEN <<>>
    ELSE LET e == Head(entries)
             rest == SlimEntriesKeepsAllKeys(Tail(entries), allowed)
         IN  IF ~IsDict(e) THEN rest
             ELSE IF DOMAIN e.v \cap allowed = {} THEN rest
                  ELSE <<e>> \o rest

\* the loop "for t in tools": entries restricted to the allowed keys, empty ones dropped
RECURSIVE SlimEntries(_, _)
SlimEntries(entries, allowed) ==
    IF entries = <<>> THEN <<>>
    ELSE LET e == Head(entries)
             rest == SlimEntries(Tail(entries), allowed)
         IN  IF ~IsDict(e) THEN rest
             ELSE LET keep == DOMAIN e.v \cap allowed IN
                  IF keep = {} THEN rest
                  ELSE <<Dict([k \in keep |-> e.v[k]])>> \o rest

\* "slim or None"
ListOrNone(l) == IF l = <<>> THEN None ELSE List(l)

_slim_tool_definitions(it) ==
    LET tools == Or(Get(it, "tool_definitions"), Get(it, "tools")) IN
    IF ~IsList(tools) THEN None
    ELSE ListOrNone(SlimEntries(tools.v, ToolDefinitionKeys))

_slim_tool_calls(it) ==
    LET calls == Or(Get(it, "tool_calls"), Get(it, "tools_called")) IN
    IF ~IsList(calls) THEN None
    ELSE ListOrNone(SlimEntries(calls.v, ToolCallKeys))

(***************************************************************************)
(* The Context Extractor: _extract_context_from_messages                   *)
(***************************************************************************)
SourceOpen == <<"[", "S", "o", "u", "r", "c", "e", ":", " ">>
SourceClose == <<"]", "\n">>
Ellipsis == <<".", ".", ".">>

\* "for content_part in result_content": the parts that reach the append,
\* each with the file_name of its result entry
RECURSIVE FragmentsOfContent(_, _)
FragmentsOfContent(result_content, file_name) ==
    IF result_content = <<>> THEN <<>>
    ELSE LET content_part == Head(result_content)
             rest == FragmentsOfContent(Tail(result_content), file_name)
         IN  IF ~IsDict(content_part) THEN rest
             ELSE LET text == GetDefault(content_part, "text", Str(<<>>)) IN
                  IF ~Truthy(text) THEN rest
                  ELSE <<[file_name |-> file_name, text |-> text]>> \o rest

\* "for result in tool_result"
RECURSIVE FragmentsOfResults(_)
FragmentsOfResults(tool_result) ==
    IF tool_result = <<>> THEN <<>>
    ELSE LET result == Head(tool_result)
             rest == FragmentsOfResults(Tail(tool_result))
         IN  IF ~IsDict(result) THEN rest
             ELSE LET file_name == GetDefault(result, "file_name", Str(<<>>))
                      result_content == Get(result, "content")
                  IN  IF ~IsList(result_content) THEN rest
                      ELSE FragmentsOfContent(result_content.v, file_name) \o rest

\* "for part in content"
RECURSIVE FragmentsOfParts(_)
FragmentsOfParts(content) ==
    IF content = <<>> THEN <<>>
    ELSE LET part == Head(content)
             rest == FragmentsOfParts(Tail(content))
         IN  IF ~IsDict(part) THEN rest
             ELSE IF Get(part, "type") # TypeToolResult THEN rest
             ELSE LET tool_result == Get(part, "tool_result") IN
                  IF ~IsList(tool_result) THEN rest
                  ELSE FragmentsOfResults(tool_result.v) \o rest

\* "for m in messages"
RECURSIVE FragmentsOfMessages(_)
FragmentsOfMessages(messages) ==
    IF messages = <<>> THEN <<>>
    ELSE LET m == Head(messages)
             rest == FragmentsOfMessages(Tail(messages))
         IN  IF ~IsDict(m) THEN rest
             ELSE IF Get(m, "role") # RoleTool THEN rest
             ELSE LET content == Get(m, "content") IN
                  IF ~IsList(content) THEN rest
                  ELSE FragmentsOfParts(content.v) \o rest

\* lines 168-174: strip, source attribution, truncation
ContextEntryCutsFirst(text, file_name, max_chars) ==
    LET stripped == Strip(text.v)
        cut == IF Len(stripped) > max_chars
               THEN Prefix(stripped, max_chars) \o Ellipsis
               ELSE stripped
    IN  IF Truthy(file_name)
        THEN SourceOpen \o PyStr(file_name) \o SourceClose \o cut
        ELSE cut

ContextEntry(text, file_name, max_chars) ==
    LET stripped == Strip(text.v)
        attributed == IF Truthy(file_name)
                      THEN SourceOpen \o PyStr(file_name) \o SourceClose \o stripped
                      ELSE stripped
    IN  IF Len(attributed) > max_chars
        THEN Prefix(attributed, max_chars) \o Ellipsis
        ELSE attributed

\* lines 176-179: append, then return as soon as max_contexts is reached
RECURSIVE AppendContexts(_, _, _, _)
AppendContexts(contexts, frags, max_contexts, max_chars) ==
    IF frags = <<>> THEN contexts
    ELSE LET f == Head(frags)
             appended == Append(contexts, ContextEntry(f.text, f.file_name, max_chars))
         IN  IF Len(appended) >= max_contexts THEN appended
             ELSE AppendContexts(appended, Tail(frags), max_contexts, max_chars)

_extract_context_from_messages(messages, max_contexts, max_chars) ==
    AppendContexts(<<>>, FragmentsOfMessages(messages), max_contexts, max_chars)

(***************************************************************************)
(* _collect_context, _build_context_from_tool_results                      *)
(***************************************************************************)
\* "for v in c": the strings of a list candidate
RECURSIVE ContextTexts(_)
ContextTexts(c) ==
    IF c = <<>> THEN <<>>
    ELSE LET v == Head(c)
             rest == ContextTexts(Tail(c))
         IN  IF IsStr(v) THEN <<v.v>> \o rest
             ELSE IF IsDict(v) /\ "text" \in DOMAIN v.v
                  THEN <<PyStr(Get(v, "text"))>> \o rest
                  ELSE rest

ContextKeys == <<"context", "retrieved_context", "evidence", "citations">>

\* "for c in candidates", from candidate number i on
RECURSIVE CollectFromSkipsBarren(_, _, _)
CollectFromSkipsBarren(it, keys, i) ==
    IF i > Len(keys) THEN <<>>
    ELSE LET c == Get(it, keys[i]) IN
         IF ~Truthy(c) THEN CollectFromSkipsBarren(it, keys, i + 1)
         ELSE IF IsStr(c) THEN <<c.v>>
         ELSE IF IsList(c) /\ ContextTexts(c.v) # <<>> THEN ContextTexts(c.v)
         ELSE CollectFromSkipsBarren(it, keys, i + 1)

RECURSIVE CollectFrom(_, _, _)
CollectFrom(it, keys, i) ==
    IF i > Len(keys) THEN <<>>
    ELSE LET c == Get(it, keys[i]) IN
         IF ~Truthy(c) THEN CollectFrom(it, keys, i + 1)
         ELSE IF IsStr(c) THEN <<c.v>>
         ELSE IF IsList(c) THEN ContextTexts(c.v)
         ELSE CollectFrom(it, keys, i + 1)

\* a context is a list of strings (sequences of characters), <<>> standing for None
_collect_context(it) == CollectFrom(it, ContextKeys, 1)

BuildContextFullBudgetForResponse(it, max_contexts, max_chars) ==
    LET q == Get(it, "query")
        from_query == IF IsList(q)
                      THEN _extract_context_from_messages(q.v, max_contexts, max_chars)
                      ELSE <<>>
    IN  IF Len(from_query) < max_contexts
        THEN LET r == Get(it, "response") IN
             IF IsList(r)
             THEN from_query \o _extract_context_from_messages(r.v, max_contexts, max_chars)
             ELSE from_query
        ELSE from_query

_build_context_from_tool_results(it, max_contexts, max_chars) ==
    LET q == Get(it, "query")
        from_query == IF IsList(q)
                      THEN _extract_context_from_messages(q.v, max_contexts, max_chars)
                      ELSE <<>>
    IN  IF Len(from_query) < max_contexts
        THEN LET r == Get(it, "response") IN
             IF IsList(r)
             THEN from_query \o _extract_context_from_messages(
                                    r.v, max_contexts - Len(from_query), max_chars)
             ELSE from_query
        ELSE from_query

\* the fragments a call of _extract_context_from_messages reaches before it
\* returns: it returns once len(contexts) >= max_contexts, after the append
ScannedFragments(messages, max_contexts) ==
    LET frags == FragmentsOfMessages(messages)
        reach == IF max_contexts < 1 THEN 1 ELSE max_contexts
    IN  SubSeq(frags, 1, IF reach < Len(frags) THEN reach ELSE Len(frags))

\* line 168: text.strip() raises AttributeError on a truthy text that is no string
StripRaises(frags) == \E i \in 1..Len(frags) : ~IsStr(frags[i].text)

\* _build_context_from_tool_results raises on the item
BuildRaises(it, max_contexts) ==
    LET q == Get(it, "query")
        r == Get(it, "response")
        from_query == IF IsList(q) THEN ScannedFragments(q.v, max_contexts) ELSE <<>>
    IN  \/ StripRaises(from_query)
        \/ /\ Len(from_query) < max_contexts
           /\ IsList(r)
           /\ StripRaises(ScannedFragments(r.v, max_contexts - Len(from_query)))

(***************************************************************************)
(* _get_ground_truth, _get_doc_gt_and_retrieved                            *)
(***************************************************************************)
_get_ground_truth(it) ==
    LET gt == Or(Get(it, "ground_truth"), Get(it, "reference_answer")) IN
    IF IsStr(gt) THEN gt ELSE None

_get_doc_gt_and_retrieved(it) ==
    LET gt_docs == Or(Get(it, "ground_truth_documents"), Get(it, "labels"))
        ret_docs == Or(Get(it, "retrieved_documents"), Get(it, "documents"))
    IN  IF IsList(gt_docs) /\ IsList(ret_docs)
        THEN Dict([ground_truth_documents |-> gt_docs, retrieved_documents |-> ret_docs])
        ELSE None

(***************************************************************************)
(* Inputs: messages, content parts and tool-result entries                 *)
(***************************************************************************)
Hi == <<"H", "i">>
Hello == <<"H", "e", "l", "l", "o">>
Kb1 == <<"k", "b", "1", ".", "m", "d">>
ResetSteps == <<"R", "e", "s", "e", "t", " ", "s", "t", "e", "p", "s", ".", ".", ".">>

\* n copies of the character c
Pad(c, n) == [i \in 1..n |-> c]

\* a dict with the keys of f whose value is not Absent
Absent == [t |-> "absent", v |-> <<>>]
MkDict(f) == Dict([k \in {x \in DOMAIN f : f[x] # Absent} |-> f[k]])

TextPart(s) == Dict([type |-> TypeText, text |-> Str(s)])
Message(role, content) == Dict([role |-> role, content |-> content])
\* one retrieved-document entry of a tool_result: file_name may be Absent
ResultEntry(file_name, texts) ==
    MkDict([file_name |-> file_name,
            content |-> List([i \in 1..Len(texts) |-> TextPart(texts[i])])])
ToolMessage(results) ==
    Message(RoleTool, List(<<Dict([type |-> TypeToolResult, tool_result |-> List(results)])>>))

UserHi == Message(RoleUser, Str(Hi))
UserHiParts == Message(RoleUser, List(<<TextPart(Hi)>>))
AssistantHello == Message(RoleAssistant, List(<<TextPart(Hello)>>))
Kb1Result == ResultEntry(Str(Kb1), <<ResetSteps>>)
Kb1Tool == ToolMessage(<<Kb1Result>>)
\* a tool result whose text is a number
NumberTool ==
    ToolMessage(<<Dict([file_name |-> Str(Kb1),
                        content |-> List(<<Dict([type |-> TypeText, text |-> Num(1)])>>)])>>)
\* three text-bearing fragments in two entries, among parts and entries that
\* carry none: surrounding whitespace and no file name, an empty text, a part
\* without text, an entry that is not a dict, then an entry with a file name
MixedTool ==
    ToolMessage(<<ResultEntry(Absent, <<<<" ", "a", "b", " ">>, <<>>, <<"c">>>>),
                  Str(<<"x">>),
                  Dict([file_name |-> Str(<<"f">>),
                        content |-> List(<<Dict([type |-> TypeText]),
                                           TextPart(<<"d", "e", "f">>)>>)])>>)

(***************************************************************************)
(* Specification SpecSplit: one call of split_query_and_response           *)
(***************************************************************************)
PostIdle ==
    /\ pc = "idle"
    /\ lines = <<>>
    /\ rag_snippets_k = 0
    /\ snippet_max_chars = 0
    /\ nread = 0
    /\ item = None
    /\ tool_ctx_called = FALSE
    /\ general_rows = <<>>
    /\ agent_rows = <<>>
    /\ rag_rows = <<>>
    /\ docret_rows = <<>>
    /\ respcomp_rows = <<>>
    /\ outputs = <<>>
    /\ files = <<>>

\* the messages of a run: any role, or no role key at all
SplitMessages ==
    {Message(r, Str(Hi)) : r \in {RoleSystem, RoleUser, RoleAssistant, RoleTool}}
        \cup {Dict([content |-> Str(Hi)])}

SeqsUpTo(S, n) == UNION {[1..m -> S] : m \in 0..n}

InitSplit ==
    /\ PostIdle
    /\ fn = "none"
    /\ arg \in {[messages |-> ms] : ms \in SeqsUpTo(SplitMessages, MaxMsgs)}
    /\ ret = None

CallSplit ==
    /\ fn = "none"
    /\ fn' = "split"
    /\ ret' = split_query_and_response(arg.messages)
    /\ UNCHANGED <<arg, post_vars>>

NextSplit == CallSplit

SpecSplit == InitSplit /\ [][NextSplit]_vars

\* index of the first message with role assistant, Len + 1 when there is none
FirstAssistant(ms) ==
    IF \E i \in 1..Len(ms) : Get(ms[i], "role") = RoleAssistant
    THEN CHOOSE i \in 1..Len(ms) :
            /\ Get(ms[i], "role") = RoleAssistant
            /\ \A j \in 1..(i - 1) : Get(ms[j], "role") # RoleAssistant
    ELSE Len(ms) + 1

\* C1: concatenating the returned query and response gives exactly the input
\* sequence (same messages, same order, none duplicated, none dropped); an
\* empty input yields two empty sequences.
C1_LosslessSplit ==
    fn = "split" =>
        /\ ret.query \o ret.response = arg.messages
        /\ (arg.messages = <<>> => ret.query = <<>> /\ ret.response = <<>>)

\* C1 witness: a split whose two parts are both non-empty, with a
\* non-assistant message after the first assistant message
C1_Witness ==
    /\ fn = "split"
    /\ Len(arg.messages) = MaxMsgs
    /\ ret.query # <<>>
    /\ Len(ret.response) >= 2
    /\ Get(ret.response[2], "role") # RoleAssistant

\* C2: query is the maximal prefix before the first assistant message (so no
\* query message has role assistant), response is everything from that
\* message on; with no assistant message query is the input and response is
\* empty.
C2_PrefixBeforeFirstAssistant ==
    fn = "split" =>
        LET ms == arg.messages
            n == FirstAssistant(ms)
        IN  /\ ret.query = SubSeq(ms, 1, n - 1)
            /\ ret.response = SubSeq(ms, n, Len(ms))
            /\ \A i \in 1..Len(ret.query) : Get(ret.query[i], "role") # RoleAssistant
            /\ (n = Len(ms) + 1 => ret.query = ms /\ ret.response = <<>>)

\* C2 witness: an assistant message in the middle, followed by a user message
C2_Witness ==
    /\ fn = "split"
    /\ Len(arg.messages) = 3
    /\ FirstAssistant(arg.messages) = 2
    /\ Get(arg.messages[3], "role") = RoleUser
    /\ Len(ret.query) = 1
    /\ Len(ret.response) = 2

(***************************************************************************)
(* Specification SpecExtract: one call of _extract_context_from_messages   *)
(* or of _build_context_from_tool_results                                  *)
(***************************************************************************)
DefaultSnippetMaxChars == 2000
MaxToolMsgs == 2

ExtractMessages == {UserHi, Kb1Tool, MixedTool}

\* the query / response of a record: a message list, a plain string, or missing
MessageValues ==
    {List(ms) : ms \in SeqsUpTo(ExtractMessages, MaxToolMsgs)} \cup {Str(Hi), Absent}

GridArgs ==
    {[item |-> MkDict([query |-> q, response |-> r]), max_contexts |-> k, max_chars |-> l] :
        q \in MessageValues, r \in MessageValues,
        k \in 0..MaxK, l \in {MaxL, DefaultSnippetMaxChars}}

\* source texts: short ones over a letter and a blank, and texts of max_chars +
\* Excess characters made of a run of blanks, a run of letters, a run of blanks
ShortTexts == SeqsUpTo({"x", " "}, 2) \ {<<>>}
LongTexts(l) ==
    {Pad(" ", a) \o Pad("x", l + Excess - a - b) \o Pad(" ", b) :
        a \in {n \in {0, 1, Excess} : n <= l + Excess},
        b \in {n \in {0, 1, Excess} : n <= l}}
FileNames == {Absent, None, Str(<<>>), Str(<<"f">>), Str(Kb1)}

\* a query holding one tool message with one result entry with one text
SnippetItem(file_name, text) ==
    Dict([query |-> List(<<ToolMessage(<<ResultEntry(file_name, <<text>>)>>)>>)])

SnippetArgs ==
    UNION {{[item |-> SnippetItem(f, t), max_contexts |-> 1, max_chars |-> l] :
                f \in FileNames, t \in ShortTexts \cup LongTexts(l)} :
           l \in (0..MaxL) \cup {DefaultSnippetMaxChars}}

InitExtract ==
    /\ PostIdle
    /\ fn = "none"
    /\ arg \in GridArgs \cup SnippetArgs
    /\ ret = None

CallExtract ==
    /\ fn = "none"
    /\ IsList(Get(arg.item, "query"))
    /\ fn' = "extract"
    /\ ret' = _extract_context_from_messages(
                  Get(arg.item, "query").v, arg.max_contexts, arg.max_chars)
    /\ UNCHANGED <<arg, post_vars>>

CallBuild ==
    /\ fn = "none"
    /\ fn' = "build"
    /\ ret' = _build_context_from_tool_results(arg.item, arg.max_contexts, arg.max_chars)
    /\ UNCHANGED <<arg, post_vars>>

NextExtract == CallExtract \/ CallBuild

SpecExtract == InitExtract /\ [][NextExtract]_vars

\* the text-bearing fragments with non-empty text in the scanned tool results
AvailableIn(x) == IF IsList(x) THEN Len(FragmentsOfMessages(x.v)) ELSE 0
Available ==
    IF fn = "extract" THEN AvailableIn(Get(arg.item, "query"))
    ELSE AvailableIn(Get(arg.item, "query")) + AvailableIn(Get(arg.item, "response"))

ExtractCountForPositiveK ==
    fn \in {"extract", "build"} /\ arg.max_contexts >= 1 =>
        Len(ret) = IF Available < arg.max_contexts THEN Available ELSE arg.max_contexts

\* a call on an input of SnippetArgs: its one source text and file name
IsSnippetCall ==
    /\ fn = "extract"
    /\ arg.max_contexts = 1
    /\ AvailableIn(Get(arg.item, "query")) = 1
SnippetFragment == FragmentsOfMessages(Get(arg.item, "query").v)[1]

\* the text between its first and its last non-whitespace character
Trimmed(s) ==
    LET solid == {i \in 1..Len(s) : s[i] \notin Whitespace} IN
    IF solid = {} THEN <<>>
    ELSE SubSeq(s, CHOOSE i \in solid : \A j \in solid : i <= j,
                   CHOOSE i \in solid : \A j \in solid : j <= i)

\* the trimmed text, after "[Source: <file_name>]" and a newline when a file
\* name is present
AttributedText(f) ==
    IF f.file_name.t = "str" /\ f.file_name.v # <<>>
    THEN <<"[", "S", "o", "u", "r", "c", "e", ":", " ">> \o f.file_name.v
             \o <<"]", "\n">> \o Trimmed(f.text.v)
    ELSE Trimmed(f.text.v)

EndsWithEllipsis(s) ==
    Len(s) >= 3 /\ SubSeq(s, Len(s) - 2, Len(s)) = <<".", ".", ".">>

\* C4 as stated: for every L and every source text of length L + 100 the
\* snippet is exactly L characters followed by "...".
C4_EveryLongTextIsCut ==
    IsSnippetCall /\ Len(SnippetFragment.text.v) = arg.max_chars + Excess =>
        /\ Len(ret[1]) = arg.max_chars + 3
        /\ EndsWithEllipsis(ret[1])

\* C4, amended: the snippet is the trimmed text, prefixed by the source line
\* when a file name is present; when that is longer than L it is cut to its
\* first L characters followed by "...", otherwise it is emitted unchanged.
\* A text of length L + 100 that neither starts nor ends with whitespace is
\* always cut.
C4_CutWhenTrimmedIsLonger ==
    IsSnippetCall =>
        LET f == SnippetFragment
            whole == AttributedText(f)
            l == arg.max_chars
        IN  /\ Len(ret) = 1
            /\ Len(whole) > l =>
                  /\ Len(ret[1]) = l + 3
                  /\ SubSeq(ret[1], 1, l) = SubSeq(whole, 1, l)
                  /\ EndsWithEllipsis(ret[1])
            /\ Len(whole) <= l => ret[1] = whole
            /\ (/\ Len(f.text.v) = l + Excess
                /\ Trimmed(f.text.v) = f.text.v) => Len(ret[1]) = l + 3

\* C4 witness: a text of length L + 100 with a file name, cut to L characters
\* of the attributed text
C4_Witness ==
    /\ IsSnippetCall
    /\ arg.max_chars = MaxL
    /\ Len(SnippetFragment.text.v) = MaxL + Excess
    /\ Trimmed(SnippetFragment.text.v) = SnippetFragment.text.v
    /\ SnippetFragment.file_name = Str(Kb1)
    /\ ret = <<SubSeq(<<"[", "S", "o", "u", "r", "c", "e">>, 1, MaxL) \o <<".", ".", ".">>>>

(***************************************************************************)
(* Specification SpecCollect: one call of _collect_context                 *)
(***************************************************************************)
\* what an explicit context field may hold, written with the letter c: nothing,
\* an empty string or list, a string, a list with strings and a dict with
\* text, a list of dicts without text, a dict
ContextValues(c) ==
    {Absent, Str(<<>>), List(<<>>), Str(<<c>>),
     List(<<Str(<<c>>), Num(1), Dict([text |-> Str(<<c, c>>)])>>),
     List(<<Dict([doc_id |-> Str(<<c>>)])>>),
     Dict([doc_id |-> Str(<<c>>)])}

ContextItems ==
    {MkDict([context |-> a, retrieved_context |-> b, evidence |-> c, citations |-> d]) :
        a \in ContextValues("a"), b \in ContextValues("b"),
        c \in ContextValues("c"), d \in ContextValues("d")}

InitCollect ==
    /\ PostIdle
    /\ fn = "none"
    /\ arg \in {[item |-> it] : it \in ContextItems}
    /\ ret = None

CallCollect ==
    /\ fn = "none"
    /\ fn' = "collect"
    /\ ret' = _collect_context(arg.item)
    /\ UNCHANGED <<arg, post_vars>>

NextCollect == CallCollect

SpecCollect == InitCollect /\ [][NextCollect]_vars

\* the list of strings derived from one field
DerivedStrings(c) ==
    IF IsStr(c) THEN <<c.v>> ELSE IF IsList(c) THEN ContextTexts(c.v) ELSE <<>>

\* the first of the four fields, in priority order, that satisfies Wins
WinnerStrings(it, Wins(_)) ==
    IF \E i \in 1..4 : Wins(Get(it, ContextKeys[i]))
    THEN LET w == CHOOSE i \in 1..4 :
                     /\ Wins(Get(it, ContextKeys[i]))
                     /\ \A j \in 1..(i - 1) : ~Wins(Get(it, ContextKeys[j]))
         IN  DerivedStrings(Get(it, ContextKeys[w]))
    ELSE <<>>

NonEmpty(c) == Truthy(c)
NonEmptyStringOrList(c) == Truthy(c) /\ (IsStr(c) \/ IsList(c))

\* C5 as stated: the first non-empty field among context, retrieved_context,
\* evidence, citations wins; a lower-priority field is used only when every
\* higher-priority field is empty or missing.
C5_FirstNonEmptyWins ==
    fn = "collect" => ret = WinnerStrings(arg.item, NonEmpty)

\* C5, amended: the first field that is a non-empty string or a non-empty list
\* wins, and the context is the list of strings derived from it; a
\* lower-priority field is used only when every higher-priority field is
\* empty, missing, or neither a string nor a list.
C5_FirstStringOrListWins ==
    fn = "collect" => ret = WinnerStrings(arg.item, NonEmptyStringOrList)

\* C5 witness: context is empty, retrieved_context is a dict, and evidence wins
\* over a populated citations field
C5_Witness ==
    /\ fn = "collect"
    /\ Get(arg.item, "context") = Str(<<>>)
    /\ IsDict(Get(arg.item, "retrieved_context"))
    /\ IsList(Get(arg.item, "evidence"))
    /\ Get(arg.item, "citations") = Str(<<"d">>)
    /\ ret = <<<<"c">>, <<"c", "c">>>>

(***************************************************************************)
(* postprocess: the body of the loop over the input records                *)
(***************************************************************************)
\* json.dumps(d, ensure_ascii=False) of a dict with at most one key, whose
\* value is a string without characters that need escaping
KeyChars(k) == CASE k = "id" -> <<"i", "d">>
JsonDumps(d) ==
    IF DOMAIN d.v = {} THEN <<"{", "}">>
    ELSE LET k == CHOOSE x \in DOMAIN d.v : TRUE IN
         <<"{", "\"">> \o KeyChars(k) \o <<"\"", ":", " ", "\"">> \o d.v[k].v \o <<"\"", "}">>

\* lines 281, 292-293
QueryOf(it) ==
    LET query == _last_user_query(it) IN
    IF ~Truthy(query) /\ IsDict(Get(it, "query"))
    THEN Str(JsonDumps(Get(it, "query")))
    ELSE query

\* line 282
ResponseOf(it) == _final_assistant_response(it)

\* {k: v for k, v in (("query", query), ("response", response)) if v is not None}
QueryResponseRow(query, response) ==
    MkDict([query |-> IF IsNone(query) THEN Absent ELSE query,
            response |-> IF IsNone(response) THEN Absent ELSE response])

\* lines 296-299: the rows appended to general_rows
GeneralRowsNeedsBoth(it) ==
    LET query == QueryOf(it)
        response == ResponseOf(it)
    IN  IF Truthy(query) /\ Truthy(response)
        THEN <<QueryResponseRow(query, response)>> ELSE <<>>

GeneralRowsOf(it) ==
    LET query == QueryOf(it)
        response == ResponseOf(it)
    IN  IF Truthy(query) \/ Truthy(response)
        THEN <<QueryResponseRow(query, response)>> ELSE <<>>

\* lines 302-312: the rows appended to agent_rows
AgentRowsNeedsText(it) ==
    LET tool_defs == _slim_tool_definitions(it)
        tool_calls == _slim_tool_calls(it)
        base == QueryResponseRow(QueryOf(it), ResponseOf(it))
        agent_row ==
            MkDict([query |-> GetDefault(base, "query", Absent),
                    response |-> GetDefault(base, "response", Absent),
                    tool_definitions |-> IF Truthy(tool_defs) THEN tool_defs ELSE Absent,
                    tool_calls |-> IF Truthy(tool_calls) THEN tool_calls ELSE Absent])
    IN  IF Truthy(QueryOf(it)) \/ Truthy(ResponseOf(it)) THEN <<agent_row>> ELSE <<>>

AgentRowsOf(it) ==
    LET tool_defs == _slim_tool_definitions(it)
        tool_calls == _slim_tool_calls(it)
        base == QueryResponseRow(QueryOf(it), ResponseOf(it))
        agent_row ==
            MkDict([query |-> GetDefault(base, "query", Absent),
                    response |-> GetDefault(base, "response", Absent),
                    tool_definitions |-> IF Truthy(tool_defs) THEN tool_defs ELSE Absent,
                    tool_calls |-> IF Truthy(tool_calls) THEN tool_calls ELSE Absent])
    IN  IF Truthy(agent_row) THEN <<agent_row>> ELSE <<>>

\* line 322: "if not context and rag_snippets_k > 0"
NeedsToolContextIgnoresK(context, k) == context = <<>>
NeedsToolContext(context, k) == context = <<>> /\ k > 0

\* lines 316-325: the record's context, <<>> standing for None
ContextOf(it, k, max_chars) ==
    LET context == _collect_context(it) IN
    IF NeedsToolContext(context, k)
    THEN _build_context_from_tool_results(it, k, max_chars)
    ELSE context

\* a list of strings as a JSON value
StrList(c) == List([i \in 1..Len(c) |-> Str(c[i])])

\* lines 332-337: the rows appended to rag_rows
RagRowsIgnoresResponse(it, k, max_chars) ==
    LET context == ContextOf(it, k, max_chars) IN
    IF context # <<>> /\ Truthy(QueryOf(it))
    THEN <<Dict([query |-> QueryOf(it), response |-> ResponseOf(it),
                 context |-> StrList(context)])>>
    ELSE <<>>

RagRowsOf(it, k, max_chars) ==
    LET context == ContextOf(it, k, max_chars) IN
    IF context # <<>> /\ Truthy(QueryOf(it)) /\ Truthy(ResponseOf(it))
    THEN <<Dict([query |-> QueryOf(it), response |-> ResponseOf(it),
                 context |-> StrList(context)])>>
    ELSE <<>>

\* lines 344-348: the rows appended to docret_rows
DocretRowsOf(it) ==
    LET dr == _get_doc_gt_and_retrieved(it)
        query == QueryOf(it)
    IN  IF Truthy(dr)
        THEN <<MkDict([query |-> IF IsNone(query) THEN Absent ELSE query,
                       ground_truth_documents |-> Get(dr, "ground_truth_documents"),
                       retrieved_documents |-> Get(dr, "retrieved_documents")])>>
        ELSE <<>>

\* lines 351-357: the rows appended to respcomp_rows
RespcompRowsOf(it) ==
    LET gt == _get_ground_truth(it) IN
    IF Truthy(gt) /\ Truthy(ResponseOf(it))
    THEN <<Dict([query |-> QueryOf(it), response |-> ResponseOf(it), ground_truth |-> gt])>>
    ELSE <<>>

(***************************************************************************)
(* Input records                                                           *)
(***************************************************************************)
QueryValues ==
    {Absent, Str(<<>>), Str(Hi), List(<<UserHiParts>>), List(<<MixedTool, UserHi>>),
     Dict([id |-> Str(<<"q">>)])}
ResponseValues ==
    {Absent, Str(<<>>), Str(Hello), List(<<AssistantHello>>),
     List(<<Kb1Tool, AssistantHello>>), List(<<Kb1Tool>>)}

AllKeys ==
    {"query", "response", "tool_definitions", "tools", "tool_calls", "tools_called",
     "context", "retrieved_context", "evidence", "citations",
     "ground_truth", "reference_answer",
     "ground_truth_documents", "labels", "retrieved_documents", "documents"}

\* a record with the given query and response and the fields of f
Record(q, r, f) ==
    MkDict([k \in AllKeys |->
              IF k = "query" THEN q
              ELSE IF k = "response" THEN r
              ELSE IF k \in DOMAIN f THEN f[k] ELSE Absent])

NoFields == [k \in {} |-> Absent]

QueryResponseRecords == {Record(q, r, NoFields) : q \in QueryValues, r \in ResponseValues}

ContextFields ==
    {[context |-> Str(<<"a">>)],
     [context |-> Str(<<>>), evidence |-> List(<<Str(<<"c">>), Dict([text |-> Str(<<"c", "c">>)])>>)],
     [citations |-> List(<<Dict([doc_id |-> Str(<<"d">>)])>>)],
     [context |-> Dict([doc_id |-> Str(<<"a">>)]), retrieved_context |-> Str(<<"b">>)]}
ContextRecords ==
    {Record(Str(Hi), r, f) :
        r \in {Str(Hello), List(<<Kb1Tool, AssistantHello>>)}, f \in ContextFields}

Lookup == <<"l", "o", "o", "k", "u", "p">>
ToolFields ==
    {[tool_definitions |-> List(<<Dict([name |-> Str(Lookup), description |-> Str(<<"d">>),
                                        extra |-> Str(<<"x">>)])>>),
      tool_calls |-> List(<<Dict([name |-> Str(Lookup), arguments |-> Dict([x |-> Num(1)]),
                                  id |-> Str(<<"x">>)])>>)],
     [tools |-> List(<<Dict([name |-> Str(Lookup)]), Str(<<"x">>)>>)],
     [tool_definitions |-> List(<<Dict([extra |-> Str(<<"x">>)])>>)]}
ToolRecords ==
    {Record(q, q, f) : q \in {Absent}, f \in ToolFields}
        \cup {Record(Str(Hi), Str(Hello), f) : f \in ToolFields}

Doc(c) == Dict([id |-> Str(<<c>>)])
GroundTruthDocFields ==
    {NoFields,
     [ground_truth_documents |-> List(<<Doc("g")>>)],
     [labels |-> List(<<Doc("l")>>)],
     [ground_truth_documents |-> List(<<>>)],
     [ground_truth_documents |-> List(<<>>), labels |-> List(<<>>)],
     [ground_truth_documents |-> Str(<<"g">>), labels |-> List(<<Doc("l")>>)]}
RetrievedDocFields ==
    {NoFields,
     [retrieved_documents |-> List(<<Doc("r")>>)],
     [retrieved_documents |-> List(<<>>), documents |-> List(<<Doc("d")>>)],
     [retrieved_documents |-> List(<<>>)]}
DocumentRecords ==
    {Record(q, Absent, g @@ r) :
        q \in {Absent, Str(<<>>), Str(Hi)},
        g \in GroundTruthDocFields \ {NoFields}, r \in RetrievedDocFields \ {NoFields}}
      \cup {Record(Str(Hi), Absent, g @@ r) :
              g \in GroundTruthDocFields, r \in RetrievedDocFields}

GroundTruthFields ==
    {[ground_truth |-> Str(<<"g">>)],
     [ground_truth |-> Str(<<>>), reference_answer |-> Str(<<"r">>)],
     [ground_truth |-> Num(1), reference_answer |-> Str(<<"r">>)]}
GroundTruthRecords ==
    {Record(q, r, f) :
        q \in {Absent, Str(Hi)}, r \in {Absent, Str(Hello)}, f \in GroundTruthFields}

\* records with a value of unexpected type inside a tool result
OddRecords ==
    {Record(List(<<NumberTool, UserHi>>), Str(Hello), f) :
        f \in {NoFields, [context |-> Str(<<"a">>)]}}

Records ==
    QueryResponseRecords \cup ContextRecords \cup ToolRecords
        \cup DocumentRecords \cup GroundTruthRecords \cup OddRecords

\* a line that is empty after strip(), and a line json.loads rejects
Blank == [t |-> "blank", v |-> <<>>]
Malformed == [t |-> "malformed", v |-> <<>>]

\* the lines multi-line files are made of
CoreLines ==
    {Blank, Malformed, List(<<>>),
     Record(Absent, Absent, NoFields),
     Record(Str(Hi), List(<<AssistantHello>>), NoFields),
     Record(Str(Hi), List(<<Kb1Tool, AssistantHello>>), NoFields),
     Record(Absent, Absent, [tool_definitions |-> List(<<Dict([name |-> Str(Lookup)])>>)]),
     Record(Str(Hi), Str(Hello),
            [context |-> Str(<<"a">>), ground_truth |-> Str(<<"g">>),
             ground_truth_documents |-> List(<<Doc("g")>>),
             retrieved_documents |-> List(<<Doc("r")>>)])}

\* input files: every one-record file, and the files of up to MaxRecords core lines
InputFiles == {<<r>> : r \in Records} \cup SeqsUpTo(CoreLines, MaxRecords)

(***************************************************************************)
(* Specification Spec: one run of postprocess                              *)
(***************************************************************************)
ViewOrder ==
    <<"general_qa", "agent_basic", "rag_core", "document_retrieval",
      "response_completeness">>

\* f"{out_dir}/<view>.jsonl"
PathOf(view) == [dir |-> "out_dir", name |-> view, ext |-> "jsonl"]

RowsOfView(view) ==
    CASE view = "general_qa" -> general_rows
      [] view = "agent_basic" -> agent_rows
      [] view = "rag_core" -> rag_rows
      [] view = "document_retrieval" -> docret_rows
      [] view = "response_completeness" -> respcomp_rows

AfterView(i) == IF i < Len(ViewOrder) THEN ViewOrder[i + 1] ELSE "done"

Init ==
    /\ pc = "loop"
    /\ lines \in InputFiles
    /\ rag_snippets_k \in 0..MaxK
    /\ snippet_max_chars \in {MaxL, DefaultSnippetMaxChars}
    /\ nread = 0
    /\ item = None
    /\ tool_ctx_called = FALSE
    /\ general_rows = <<>>
    /\ agent_rows = <<>>
    /\ rag_rows = <<>>
    /\ docret_rows = <<>>
    /\ respcomp_rows = <<>>
    /\ outputs = <<>>
    /\ files = <<>>
    /\ fn = "none"
    /\ arg = None
    /\ ret = None

\* _read_jsonl, lines 8-10: a blank line is skipped
SkipBlank ==
    /\ pc = "loop"
    /\ lines # <<>>
    /\ Head(lines) = Blank
    /\ lines' = Tail(lines)
    /\ UNCHANGED <<pc, rag_snippets_k, snippet_max_chars, nread, item, tool_ctx_called,
                   general_rows, agent_rows, rag_rows, docret_rows, respcomp_rows,
                   outputs, files, fn_vars>>

\* the loop body raises on the record: the tool results are scanned (line 322)
\* and text.strip() raises (line 168)
RaisesInLoop(it, k) == NeedsToolContext(_collect_context(it), k) /\ BuildRaises(it, k)

\* a row equal to the last row of its list is not appended again
AppendNew(rows, more) == IF rows # <<>> /\ more = <<rows[Len(rows)]>> THEN rows ELSE rows \o more

ProcessItemSkipsRepeated ==
    /\ pc = "loop"
    /\ lines # <<>>
    /\ IsDict(Head(lines))
    /\ ~RaisesInLoop(Head(lines), rag_snippets_k)
    /\ lines' = Tail(lines)
    /\ LET it == Head(lines) IN
        /\ item' = it
        /\ tool_ctx_called' = NeedsToolContext(_collect_context(it), rag_snippets_k)
        /\ general_rows' = AppendNew(general_rows, GeneralRowsOf(it))
        /\ agent_rows' = AppendNew(agent_rows, AgentRowsOf(it))
        /\ rag_rows' = AppendNew(rag_rows, RagRowsOf(it, rag_snippets_k, snippet_max_chars))
        /\ docret_rows' = AppendNew(docret_rows, DocretRowsOf(it))
        /\ respcomp_rows' = AppendNew(respcomp_rows, RespcompRowsOf(it))
    /\ nread' = nread + 1
    /\ UNCHANGED <<pc, rag_snippets_k, snippet_max_chars, outputs, files, fn_vars>>

\* one iteration of "for idx, item in enumerate(_read_jsonl(input_path))"
ProcessItem ==
    /\ pc = "loop"
    /\ lines # <<>>
    /\ IsDict(Head(lines))
    /\ ~RaisesInLoop(Head(lines), rag_snippets_k)
    /\ lines' = Tail(lines)
    /\ LET it == Head(lines) IN
        /\ item' = it
        /\ tool_ctx_called' = NeedsToolContext(_collect_context(it), rag_snippets_k)
        /\ general_rows' = general_rows \o GeneralRowsOf(it)
        /\ agent_rows' = agent_rows \o AgentRowsOf(it)
        /\ rag_rows' = rag_rows \o RagRowsOf(it, rag_snippets_k, snippet_max_chars)
        /\ docret_rows' = docret_rows \o DocretRowsOf(it)
        /\ respcomp_rows' = respcomp_rows \o RespcompRowsOf(it)
    /\ nread' = nread + 1
    /\ UNCHANGED <<pc, rag_snippets_k, snippet_max_chars, outputs, files, fn_vars>>

\* json.loads raises on a malformed line (line 11): the exception leaves
\* postprocess
ReadFails ==
    /\ pc = "loop"
    /\ lines # <<>>
    /\ Head(lines) = Malformed
    /\ pc' = "aborted"
    /\ lines' = Tail(lines)
    /\ UNCHANGED <<rag_snippets_k, snippet_max_chars, nread, item, tool_ctx_called,
                   general_rows, agent_rows, rag_rows, docret_rows, respcomp_rows,
                   outputs, files, fn_vars>>

\* the line holds a JSON value that is no object: item.get raises (line 41)
ItemRaises ==
    /\ pc = "loop"
    /\ lines # <<>>
    /\ Head(lines).t \in {"list", "str", "num", "none"}
    /\ pc' = "aborted"
    /\ lines' = Tail(lines)
    /\ item' = Head(lines)
    /\ nread' = nread + 1
    /\ UNCHANGED <<rag_snippets_k, snippet_max_chars, tool_ctx_called,
                   general_rows, agent_rows, rag_rows, docret_rows, respcomp_rows,
                   outputs, files, fn_vars>>

\* the record's tool results hold a text that is no string: the general and
\* agent rows are appended (lines 296-312), then text.strip() raises
ContextRaises ==
    /\ pc = "loop"
    /\ lines # <<>>
    /\ IsDict(Head(lines))
    /\ RaisesInLoop(Head(lines), rag_snippets_k)
    /\ pc' = "aborted"
    /\ lines' = Tail(lines)
    /\ item' = Head(lines)
    /\ tool_ctx_called' = TRUE
    /\ general_rows' = general_rows \o GeneralRowsOf(Head(lines))
    /\ agent_rows' = agent_rows \o AgentRowsOf(Head(lines))
    /\ nread' = nread + 1
    /\ UNCHANGED <<rag_snippets_k, snippet_max_chars, rag_rows, docret_rows,
                   respcomp_rows, outputs, files, fn_vars>>

\* the input is exhausted: line 359
EndOfInput ==
    /\ pc = "loop"
    /\ lines = <<>>
    /\ pc' = ViewOrder[1]
    /\ outputs' = <<>>
    /\ UNCHANGED <<lines, rag_snippets_k, snippet_max_chars, nread, item, tool_ctx_called,
                   general_rows, agent_rows, rag_rows, docret_rows, respcomp_rows,
                   files, fn_vars>>

WriteViewAlways ==
    \E i \in 1..Len(ViewOrder) :
        LET view == ViewOrder[i] IN
        /\ pc = view
        /\ pc' = AfterView(i)
        /\ files' = [v \in DOMAIN files \cup {view} |->
                        IF v = view THEN RowsOfView(view) ELSE files[v]]
        /\ outputs' = [v \in DOMAIN outputs \cup {view} |->
                          IF v = view THEN PathOf(view) ELSE outputs[v]]
        /\ UNCHANGED <<lines, rag_snippets_k, snippet_max_chars, nread, item, tool_ctx_called,
                       general_rows, agent_rows, rag_rows, docret_rows, respcomp_rows,
                       fn_vars>>

\* lines 369-392: "if <view>_rows: _write_jsonl(path, rows); outputs[view] = path"
WriteView ==
    \E i \in 1..Len(ViewOrder) :
        LET view == ViewOrder[i] IN
        /\ pc = view
        /\ pc' = AfterView(i)
        /\ IF RowsOfView(view) # <<>>
           THEN /\ files' = [v \in DOMAIN files \cup {view} |->
                               IF v = view THEN RowsOfView(view) ELSE files[v]]
                /\ outputs' = [v \in DOMAIN outputs \cup {view} |->
                                 IF v = view THEN PathOf(view) ELSE outputs[v]]
           ELSE UNCHANGED <<files, outputs>>
        /\ UNCHANGED <<lines, rag_snippets_k, snippet_max_chars, nread, item, tool_ctx_called,
                       general_rows, agent_rows, rag_rows, docret_rows, respcomp_rows,
                       fn_vars>>

\* _write_jsonl raises: open fails and leaves no file, or a write fails after
\* open has created (truncated) the file
WriteFails ==
    \E i \in 1..Len(ViewOrder) :
        LET view == ViewOrder[i] IN
        /\ pc = view
        /\ RowsOfView(view) # <<>>
        /\ pc' = "aborted"
        /\ \/ files' = files
           \/ files' = [v \in DOMAIN files \cup {view} |->
                          IF v = view THEN <<>> ELSE files[v]]
        /\ UNCHANGED <<lines, rag_snippets_k, snippet_max_chars, nread, item, tool_ctx_called,
                       general_rows, agent_rows, rag_rows, docret_rows, respcomp_rows,
                       outputs, fn_vars>>

Next ==
    \/ SkipBlank \/ ProcessItem \/ ReadFails \/ ItemRaises \/ ContextRaises
    \/ EndOfInput \/ WriteView \/ WriteFails

Spec == Init /\ [][Next]_vars

(***************************************************************************)
(* The view builders, record by record                                     *)
(***************************************************************************)
\* a step that reads one record and completes the loop body on it
Processed == nread' = nread + 1 /\ pc' = "loop"

Last(rows) == rows[Len(rows)]

\* a text is present: it is neither absent nor empty
Present(x) == x.t = "str" /\ x.v # <<>>

\* the fields among query and response that are not absent
NonAbsentFields(q, r) ==
    (IF q = None THEN {} ELSE {"query"}) \cup (IF r = None THEN {} ELSE {"response"})

HiHelloRecord == Record(Str(Hi), List(<<AssistantHello>>), NoFields)

\* C7: for every input record a general_qa row is appended exactly when a
\* query text or a response text is present (non-empty); the row holds only
\* the fields among query and response that are not absent, with their texts.
\* The record {query: "Hi", response: [assistant: [text "Hello"]]} gives the
\* row {query: "Hi", response: "Hello"}.
C7_GeneralRowWhenTextPresent ==
    [][Processed =>
        LET q == QueryOf(item')
            r == ResponseOf(item')
        IN  /\ (general_rows' # general_rows) <=> (Present(q) \/ Present(r))
            /\ general_rows' # general_rows =>
                  /\ Len(general_rows') = Len(general_rows) + 1
                  /\ SubSeq(general_rows', 1, Len(general_rows)) = general_rows
                  /\ DOMAIN Last(general_rows').v = NonAbsentFields(q, r)
                  /\ q # None => Last(general_rows').v.query = q
                  /\ r # None => Last(general_rows').v.response = r
            /\ item' = HiHelloRecord =>
                  Last(general_rows') = Dict([query |-> Str(Hi), response |-> Str(Hello)])
    ]_vars

\* C7 witness: a record with a response text and no query got a row that
\* holds the response only
C7_Witness ==
    /\ nread = 1
    /\ IsDict(item)
    /\ Get(item, "query") = None
    /\ general_rows = <<Dict([response |-> Str(Hello)])>>

\* C8 as stated: the agent view has the inclusion condition of the general
\* Q&A view, so the two views always have the same number of rows.
C8_SameInclusionAsGeneral == Len(agent_rows) = Len(general_rows)

\* the value read under a pair of aliases: the first when it is truthy
Selected(it, first, second) ==
    IF Truthy(Get(it, first)) THEN Get(it, first) ELSE Get(it, second)

\* a list with at least one dict entry that has an allowed key
HasAllowedEntry(x, allowed) ==
    /\ IsList(x)
    /\ \E i \in 1..Len(x.v) : IsDict(x.v[i]) /\ DOMAIN x.v[i].v \cap allowed # {}

\* C8, amended: an agent_basic row is appended exactly when the record's query
\* or response is not absent, or its tool definitions or tool calls keep at
\* least one entry after filtering; every record that gets a general_qa row
\* gets an agent_basic row, so the agent view has at least as many rows.
C8_AgentRowWhenAnyFieldKept ==
    [][Processed =>
        LET q == QueryOf(item')
            r == ResponseOf(item')
            defs == Selected(item', "tool_definitions", "tools")
            calls == Selected(item', "tool_calls", "tools_called")
        IN  /\ (agent_rows' # agent_rows) <=>
                  \/ q # None
                  \/ r # None
                  \/ HasAllowedEntry(defs, {"name", "type", "description", "parameters",
                                            "operationId"})
                  \/ HasAllowedEntry(calls, {"name", "arguments"})
            /\ general_rows' # general_rows => agent_rows' # agent_rows
            /\ Len(agent_rows') >= Len(general_rows')
    ]_vars

\* C8 witness: a record with tool definitions and neither query nor response
\* is in the agent view and not in the general Q&A view
C8_Witness ==
    /\ nread = 1
    /\ general_rows = <<>>
    /\ agent_rows = <<Dict([tool_definitions |-> List(<<Dict([name |-> Str(Lookup)])>>)])>>

\* no explicit context field holds anything
NoFieldPopulated(it) == \A i \in 1..4 : ~Truthy(Get(it, ContextKeys[i]))

\* C6 as stated: context extraction from tool results is attempted only when
\* none of the explicit context fields is populated and rag_snippets_k > 0.
C6_OnlyWhenNoFieldPopulated ==
    [][Processed /\ tool_ctx_called' =>
        rag_snippets_k > 0 /\ NoFieldPopulated(item')]_vars

\* C6, amended: extraction from tool results is attempted only when the
\* explicit context fields yield no context (each is empty, missing, neither
\* string nor list, or the winning list holds no string) and
\* rag_snippets_k > 0; with rag_snippets_k = 0 it is never attempted and a
\* rag_core context is the explicit one.
C6_OnlyWhenNoExplicitContext ==
    [][Processed =>
        LET explicit == WinnerStrings(item', NonEmptyStringOrList) IN
        /\ tool_ctx_called' => rag_snippets_k > 0 /\ explicit = <<>>
        /\ rag_snippets_k = 0 =>
              /\ ~tool_ctx_called'
              /\ rag_rows' # rag_rows =>
                    /\ explicit # <<>>
                    /\ Last(rag_rows').v.context = StrList(explicit)
    ]_vars

\* C6 witness: a record whose citations field is populated with entries that
\* carry no text got its context from the tool results
C6_Witness ==
    /\ nread = 1
    /\ IsDict(item)
    /\ Truthy(Get(item, "citations"))
    /\ tool_ctx_called
    /\ rag_snippets_k > 0
    /\ Len(rag_rows) = 1

\* the record's context: the explicit one, else the one built from the tool
\* results when rag_snippets_k > 0
RecordContext(it) ==
    LET explicit == WinnerStrings(it, NonEmptyStringOrList) IN
    IF explicit # <<>> THEN explicit
    ELSE IF rag_snippets_k > 0
         THEN _build_context_from_tool_results(it, rag_snippets_k, snippet_max_chars)
         ELSE <<>>

Kb1Snippet ==
    <<"[", "S", "o", "u", "r", "c", "e", ":", " ", "k", "b", "1", ".", "m", "d", "]", "\n",
      "R", "e", "s", "e", "t", " ", "s", "t", "e", "p", "s", ".", ".", ".">>

\* C9: a rag_core row is appended exactly when the record's context is
\* non-empty and its query and its response are present, and the row holds
\* exactly query, response and context.  A record without explicit context
\* whose response list has the tool result (kb1.md, "Reset steps...") within
\* the snippet budget, with query and response present, gets a row whose
\* context contains "[Source: kb1.md]\nReset steps...".
C9_RagRowWhenContextQueryResponse ==
    [][Processed =>
        LET q == QueryOf(item')
            r == ResponseOf(item')
            c == RecordContext(item')
        IN  /\ (rag_rows' # rag_rows) <=> (c # <<>> /\ Present(q) /\ Present(r))
            /\ rag_rows' # rag_rows =>
                  rag_rows' = Append(rag_rows,
                                     Dict([query |-> q, response |-> r, context |-> StrList(c)]))
            /\ (/\ \A i \in 1..4 : Get(item', ContextKeys[i]) = None
                /\ Get(item', "response") = List(<<Kb1Tool, AssistantHello>>)
                /\ Present(q)
                /\ rag_snippets_k > AvailableIn(Get(item', "query"))
                /\ snippet_max_chars >= Len(Kb1Snippet)) =>
                  /\ rag_rows' # rag_rows
                  /\ \E i \in 1..Len(Last(rag_rows').v.context.v) :
                        Last(rag_rows').v.context.v[i] = Str(Kb1Snippet)
    ]_vars

\* C9 witness: the kb1.md record got a rag_core row with the snippet
C9_Witness ==
    /\ nread = 1
    /\ IsDict(item)
    /\ NoFieldPopulated(item)
    /\ rag_rows = <<Dict([query |-> Str(Hi), response |-> Str(Hello),
                          context |-> List(<<Str(Kb1Snippet)>>)])>>

\* the record has a list under one of the two aliases
HasListUnder(it, first, second) == IsList(Get(it, first)) \/ IsList(Get(it, second))

\* C10 as stated: a document_retrieval row is appended exactly when the record
\* has a ground-truth-document list under either alias and a
\* retrieved-document list under either alias.
C10_RowWhenListsUnderEitherAlias ==
    [][Processed =>
        ((docret_rows' # docret_rows) <=>
            /\ HasListUnder(item', "ground_truth_documents", "labels")
            /\ HasListUnder(item', "retrieved_documents", "documents"))
    ]_vars

\* What the code does for the document view: for each pair of aliases the
\* value read is the first alias when it is truthy, otherwise the second; a
\* row is appended exactly when both values read are lists, and it holds them
\* and the query whenever the query is not absent.
DocretRowFollowsSelectedValues ==
    [][Processed =>
        LET q == QueryOf(item')
            g == Selected(item', "ground_truth_documents", "labels")
            d == Selected(item', "retrieved_documents", "documents")
        IN  /\ (docret_rows' # docret_rows) <=> (IsList(g) /\ IsList(d))
            /\ docret_rows' # docret_rows =>
                  /\ Len(docret_rows') = Len(docret_rows) + 1
                  /\ SubSeq(docret_rows', 1, Len(docret_rows)) = docret_rows
                  /\ DOMAIN Last(docret_rows').v =
                        {"ground_truth_documents", "retrieved_documents"}
                            \cup (IF q = None THEN {} ELSE {"query"})
                  /\ Last(docret_rows').v.ground_truth_documents = g
                  /\ Last(docret_rows').v.retrieved_documents = d
                  /\ q # None => Last(docret_rows').v.query = q
    ]_vars


\* a non-empty string is held under the key
HasStringUnder(it, key) == Present(Get(it, key))

\* C11: for every input record a response_completeness row is appended
\* exactly when a ground-truth string is present under ground_truth or
\* reference_answer and the response is present; a record that has neither
\* ground_truth nor reference_answer gets no response_completeness row.
C11_RowWhenGroundTruthAndResponse ==
    [][Processed =>
        /\ (respcomp_rows' # respcomp_rows) <=>
              /\ HasStringUnder(item', "ground_truth")
                    \/ HasStringUnder(item', "reference_answer")
              /\ Present(ResponseOf(item'))
        /\ (Get(item', "ground_truth") = None /\ Get(item', "reference_answer") = None) =>
              respcomp_rows' = respcomp_rows
    ]_vars

\* What the code does for the response completeness view: the ground truth is
\* ground_truth when truthy, otherwise reference_answer; a row is appended
\* exactly when that value is a non-empty string and the response is present.
RespcompRowFollowsSelectedValue ==
    [][Processed =>
        LET gt == Selected(item', "ground_truth", "reference_answer") IN
        /\ (respcomp_rows' # respcomp_rows) <=> (Present(gt) /\ Present(ResponseOf(item')))
        /\ respcomp_rows' # respcomp_rows =>
              respcomp_rows' =
                  Append(respcomp_rows,
                         Dict([query |-> QueryOf(item'), response |-> ResponseOf(item'),
                               ground_truth |-> gt]))
    ]_vars

(***************************************************************************)
(* The output files                                                        *)
(***************************************************************************)
Views == {ViewOrder[i] : i \in 1..Len(ViewOrder)}

\* C12: after a completed run, for each of the five views the file
\* <out_dir>/<view>.jsonl is written if and only if the view collected at
\* least one row (and then holds the view's rows), and the returned summary
\* maps exactly the written views to their paths.
C12_FileWrittenIffRows ==
    pc = "done" =>
        /\ \A view \in Views : view \in DOMAIN files <=> RowsOfView(view) # <<>>
        /\ \A view \in DOMAIN files : files[view] = RowsOfView(view)
        /\ DOMAIN outputs = DOMAIN files
        /\ \A view \in DOMAIN outputs : outputs[view] = PathOf(view)

\* C12 witness: a completed run that wrote the general view and, having no
\* row for it, not the rag view
C12_Witness ==
    /\ pc = "done"
    /\ general_rows # <<>>
    /\ rag_rows = <<>>
    /\ "general_qa" \in DOMAIN files
    /\ "rag_core" \notin DOMAIN files
    /\ outputs = [v \in DOMAIN files |-> PathOf(v)]

(***************************************************************************)
(* Tool definitions and tool calls of the agent view                       *)
(***************************************************************************)
\* the input entries that have an allowed key, in order
KeptEntries(x, allowed) ==
    LET Keeps(e) == IsDict(e) /\ DOMAIN e.v \cap allowed # {} IN
    IF IsList(x) THEN SelectSeq(x.v, Keeps) ELSE <<>>

\* the row's field holds the kept entries cut down to the allowed keys, and is
\* omitted when there is none
FieldIsFiltered(row, field, x, allowed) ==
    LET kept == KeptEntries(x, allowed) IN
    /\ field \in DOMAIN row.v <=> kept # <<>>
    /\ field \in DOMAIN row.v =>
          /\ IsList(row.v[field])
          /\ Len(row.v[field].v) = Len(kept)
          /\ \A i \in 1..Len(kept) :
                LET entry == row.v[field].v[i] IN
                /\ IsDict(entry)
                /\ DOMAIN entry.v = DOMAIN kept[i].v \cap allowed
                /\ \A k \in DOMAIN entry.v : entry.v[k] = kept[i].v[k]

LookupDefinition == Dict([name |-> Str(Lookup), description |-> Str(<<"d">>)])
LookupCall == Dict([name |-> Str(Lookup), arguments |-> Dict([x |-> Num(1)])])

\* C13: in every agent_basic row each tool_definitions entry has only keys
\* from {name, type, description, parameters, operationId} and each tool_calls
\* entry only keys from {name, arguments}, with the input's values; an input
\* entry without allowed key contributes no entry, and the field is omitted
\* when no entry remains.  The lookup record keeps
\* tool_definitions [{name: lookup, description: d}] and
\* tool_calls [{name: lookup, arguments: {x: 1}}].
C13_ToolEntriesFiltered ==
    [][Processed /\ agent_rows' # agent_rows =>
        LET row == Last(agent_rows') IN
        /\ FieldIsFiltered(row, "tool_definitions",
                           Selected(item', "tool_definitions", "tools"),
                           {"name", "type", "description", "parameters", "operationId"})
        /\ FieldIsFiltered(row, "tool_calls",
                           Selected(item', "tool_calls", "tools_called"),
                           {"name", "arguments"})
    ]_vars

\* C13 witness: the lookup record, with the disallowed keys extra and id
\* stripped
C13_Witness ==
    /\ nread = 1
    /\ IsDict(item)
    /\ Get(item, "tool_definitions") =
          List(<<Dict([name |-> Str(Lookup), description |-> Str(<<"d">>),
                       extra |-> Str(<<"x">>)])>>)
    /\ Get(item, "tool_calls") =
          List(<<Dict([name |-> Str(Lookup), arguments |-> Dict([x |-> Num(1)]),
                       id |-> Str(<<"x">>)])>>)
    /\ agent_rows = <<Dict([tool_definitions |-> List(<<LookupDefinition>>),
                            tool_calls |-> List(<<LookupCall>>)])>>

(***************************************************************************)
(* Failures                                                                *)
(***************************************************************************)
\* C14: a run either completes or aborts before any output file is written:
\* when a malformed input line or an I/O error aborts the run, no view file of
\* the run has been created or overwritten.
C14_AbortLeavesNoFile == pc = "aborted" => DOMAIN files = {}

\* What the code guarantees: no view file is created or overwritten before the
\* whole input has been read, so a failure while reading or projecting the
\* records leaves no file.
NoFileBeforeEndOfInput == pc = "loop" => DOMAIN files = {} /\ DOMAIN outputs = {}

\* a line that holds a syntactically valid JSON value
IsValidJson(line) == line.t \in {"none", "str", "list", "dict", "num"}

\* C15: for every syntactically valid input record, whatever the types of its
\* fields and nested values (the record itself included), postprocess does not
\* raise: the loop goes on with the remaining records.
C15_ValidRecordNeverRaises ==
    [][(pc = "loop" /\ lines # <<>> /\ IsValidJson(Head(lines))) => pc' = "loop"]_vars

(***************************************************************************)
(* Specification SpecLast: calls of the Last-Text Extractor                *)
(***************************************************************************)
MaxLastMsgs == 2

\* messages without text: empty string content, an empty part list, parts
\* that are no non-empty text parts
NoTextMessages ==
    {Message(RoleUser, Str(<<>>)),
     Message(RoleUser, List(<<>>)),
     Message(RoleUser, List(<<TextPart(<<>>), Dict([type |-> TypeToolCall])>>)),
     Message(RoleAssistant, Str(<<>>)),
     Message(RoleAssistant, List(<<>>)),
     Message(RoleSystem, List(<<Str(<<"x">>)>>))}

LastMessages ==
    {UserHi,
     Message(RoleUser, List(<<TextPart(<<>>), Str(<<"x">>), TextPart(<<"a">>),
                              TextPart(<<"b">>)>>)),
     AssistantHello,
     Message(RoleAssistant, Str(<<"o", "k">>)),
     Str(<<"x">>)} \cup NoTextMessages

InitLast ==
    /\ PostIdle
    /\ fn = "none"
    /\ arg \in [messages : SeqsUpTo(LastMessages, MaxLastMsgs), extra : NoTextMessages]
    /\ ret = None

CallLastUser ==
    /\ fn = "none"
    /\ fn' = "last_user"
    /\ ret' = _extract_last_user_text(arg.messages)
    /\ UNCHANGED <<arg, post_vars>>

CallLastAssistant ==
    /\ fn = "none"
    /\ fn' = "last_assistant"
    /\ ret' = _extract_last_assistant_text(arg.messages)
    /\ UNCHANGED <<arg, post_vars>>

\* the same calls on the sequence with the extra message appended
CallLastUserAppended ==
    /\ fn = "none"
    /\ fn' = "last_user_appended"
    /\ ret' = _extract_last_user_text(Append(arg.messages, arg.extra))
    /\ UNCHANGED <<arg, post_vars>>

CallLastAssistantAppended ==
    /\ fn = "none"
    /\ fn' = "last_assistant_appended"
    /\ ret' = _extract_last_assistant_text(Append(arg.messages, arg.extra))
    /\ UNCHANGED <<arg, post_vars>>

NextLast ==
    CallLastUser \/ CallLastAssistant \/ CallLastUserAppended \/ CallLastAssistantAppended

SpecLast == InitLast /\ [][NextLast]_vars

\* the role a call looks for
TargetRole ==
    IF fn \in {"last_user", "last_user_appended"} THEN RoleUser ELSE RoleAssistant

\* the text of one message: its string content, else the text of its first
\* text part with non-empty text, else absence
TextOf(m) ==
    LET content == Get(m, "content") IN
    IF IsStr(content) THEN content
    ELSE IF ~IsList(content) THEN None
    ELSE LET texts == {i \in 1..Len(content.v) :
                          /\ IsDict(content.v[i])
                          /\ Get(content.v[i], "type") = TypeText
                          /\ Truthy(Get(content.v[i], "text"))}
         IN  IF texts = {} THEN None
             ELSE Get(content.v[CHOOSE i \in texts : \A j \in texts : i <= j], "text")

\* the text of the last message of the sequence that satisfies Matches
TextOfLast(messages, Matches(_)) ==
    LET found == {i \in 1..Len(messages) : Matches(messages[i])} IN
    IF found = {} THEN None
    ELSE TextOf(messages[CHOOSE i \in found : \A j \in found : j <= i])

\* C16 as stated: the extractor returns the text of the last message whose
\* role is the target role (string content verbatim, else the first text part
\* with non-empty text), and absence when there is no such message or text.
C16_TextOfLastMessageOfRole ==
    fn \in {"last_user", "last_assistant"} =>
        LET HasRole(m) == IsDict(m) /\ Get(m, "role") = TargetRole IN
        ret = TextOfLast(arg.messages, HasRole)

\* C16, amended: the extractor returns the text of the last message of the
\* target role that carries a text, a message carrying a text when its content
\* is a string (the empty string included) or a part list with a text part of
\* non-empty text; messages of the role without text are passed over, and the
\* result is absence when no message of the role carries a text.
C16_TextOfLastMessageWithText ==
    fn \in {"last_user", "last_assistant"} =>
        LET CarriesText(m) ==
                IsDict(m) /\ Get(m, "role") = TargetRole /\ TextOf(m) # None
        IN  ret = TextOfLast(arg.messages, CarriesText)

\* C16 witness: the last user message has no text part with text, and the
\* text of the user message before it is returned
C16_Witness ==
    /\ fn = "last_user"
    /\ arg.messages = <<UserHi, Message(RoleUser, List(<<>>))>>
    /\ ret = Str(Hi)

\* C17: when the extractor returns a text for a role, appending a message
\* without text (of any role; empty string content, an empty part list, or
\* parts that are no non-empty text parts) leaves the result unchanged.
C17_AppendingNoTextKeepsResult ==
    fn \in {"last_user_appended", "last_assistant_appended"} =>
        LET before == ExtractLastText(arg.messages, TargetRole) IN
        before # None => ret = before

\* What the code guarantees: the result is unchanged unless the appended
\* message has the target role and a string content.
AppendingNoStringContentKeepsResult ==
    fn \in {"last_user_appended", "last_assistant_appended"} =>
        LET before == ExtractLastText(arg.messages, TargetRole) IN
        (before # None
            /\ ~(Get(arg.extra, "role") = TargetRole /\ IsStr(Get(arg.extra, "content"))))
        => ret = before

(***************************************************************************)
(* Scanning order of the tool results                                      *)
(***************************************************************************)
\* the snippets of all fragments of a message list, in depth-first order of
\* messages, parts, result entries and fragments
AllSnippets(x, max_chars) ==
    IF ~IsList(x) THEN <<>>
    ELSE LET frags == FragmentsOfMessages(x.v) IN
         [i \in 1..Len(frags) |-> ContextEntry(frags[i].text, frags[i].file_name, max_chars)]

\* C18: when context is built from tool results the query is scanned first
\* and the response only if fewer than k snippets came from the query, with
\* the remaining budget; every snippet of the query precedes every snippet of
\* the response, and snippets keep the depth-first order of their fragments.
C18_QueryThenResponse ==
    fn = "build" =>
        LET k == arg.max_contexts
            fromQuery == AllSnippets(Get(arg.item, "query"), arg.max_chars)
            fromResponse == AllSnippets(Get(arg.item, "response"), arg.max_chars)
        IN  \E nq \in 0..Len(fromQuery), nr \in 0..Len(fromResponse) :
                /\ ret = SubSeq(fromQuery, 1, nq) \o SubSeq(fromResponse, 1, nr)
                /\ nq < Len(fromQuery) => nq >= k
                /\ nr > 0 => nq < k /\ nr <= k - nq
                /\ nr < Len(fromResponse) => nq + nr >= k

\* C18 witness: one snippet from the query, then the first of the three of the
\* response with the remaining budget of one
C18_Witness ==
    /\ fn = "build"
    /\ Get(arg.item, "query") = List(<<Kb1Tool>>)
    /\ Get(arg.item, "response") = List(<<MixedTool>>)
    /\ arg.max_contexts = 2
    /\ arg.max_chars = DefaultSnippetMaxChars
    /\ ret = <<Kb1Snippet, <<"a", "b">>>>

(***************************************************************************)
(* The row lists during a run                                              *)
(***************************************************************************)
\* new is old, or old with one row appended
ExtendsByAtMostOne(old, new) ==
    /\ Len(new) \in {Len(old), Len(old) + 1}
    /\ SubSeq(new, 1, Len(old)) = old

\* the rows a run on the record alone collects for a view
RowsAlone(view, it) ==
    CASE view = "general_qa" -> GeneralRowsOf(it)
      [] view = "agent_basic" -> AgentRowsOf(it)
      [] view = "rag_core" -> RagRowsOf(it, rag_snippets_k, snippet_max_chars)
      [] view = "document_retrieval" -> DocretRowsOf(it)
      [] view = "response_completeness" -> RespcompRowsOf(it)

\* C19: each of the five row lists is append-only and grows by at most one
\* row per record read, in input order, and the row a record contributes
\* depends only on that record: each list grows by the rows the record would
\* produce alone.
C19_RowsAppendOnlyPerRecord ==
    [][/\ ExtendsByAtMostOne(general_rows, general_rows')
       /\ ExtendsByAtMostOne(agent_rows, agent_rows')
       /\ ExtendsByAtMostOne(rag_rows, rag_rows')
       /\ ExtendsByAtMostOne(docret_rows, docret_rows')
       /\ ExtendsByAtMostOne(respcomp_rows, respcomp_rows')
       /\ nread' = nread =>
             UNCHANGED <<general_rows, agent_rows, rag_rows, docret_rows, respcomp_rows>>
       /\ \A view \in Views : Len(RowsOfView(view)') <= nread'
       /\ Processed =>
             \A view \in Views : RowsOfView(view)' = RowsOfView(view) \o RowsAlone(view, item')
    ]_vars

\* C19 witness: the same record read twice gave the same row twice
C19_Witness ==
    /\ nread = 2
    /\ pc = "loop"
    /\ item = HiHelloRecord
    /\ general_rows = <<Dict([query |-> Str(Hi), response |-> Str(Hello)]),
                        Dict([query |-> Str(Hi), response |-> Str(Hello)])>>

=============================================================================
